---------------------------- MODULE Spec2Model ----------------------------
(***************************************************************************)
(* Request authentication guards of ginger-shared-rs                       *)
(* (src/src/rocket_utils.rs): ISCClaims, APIClaims and Claims, each a      *)
(* Rocket FromRequest implementation that looks up one header, strips the  *)
(* "Bearer " scheme prefix, reads JWT_SECRET from the process environment  *)
(* and decodes the token with jsonwebtoken under Validation::new(HS256).   *)
(***************************************************************************)
EXTENDS Integers, Sequences, FiniteSets, TLC

(***************************************************************************)
(* Bounds of the model.                                                    *)
(***************************************************************************)
\* The clock value (epoch seconds) at which the process starts.
StartTime == 100
\* How many seconds the clock may advance during a run.
MaxTicks == 1

(***************************************************************************)
(* Text.  A header value is a sequence of characters.  A character is the  *)
(* record [c |-> "x"]; the compact text of one JSON Web Token (base64url   *)
(* segments joined by dots, hence free of whitespace) is carried as the    *)
(* single element [jwt |-> token].                                         *)
(***************************************************************************)
Chr(x) == [c |-> x]

Text(s) == [i \in DOMAIN s |-> Chr(s[i])]

Jwt(t) == <<[jwt |-> t]>>

IsJwt(e) == DOMAIN e = {"jwt"}

\* The pattern handed to trim_start_matches.
Bearer == Text(<<"B", "e", "a", "r", "e", "r", " ">>)

LowerBearer == Text(<<"b", "e", "a", "r", "e", "r", " ">>)

Space == Text(<<" ">>)

\* char::is_whitespace on the characters of the model.
IsWhitespace(e) == e = Chr(" ") \/ e = Chr("\t")

StartsWith(s, p) ==
    /\ Len(s) >= Len(p)
    /\ SubSeq(s, 1, Len(p)) = p

\* str::trim_start_matches(pat): removes every leading repetition of pat.
RECURSIVE TrimStartMatches(_, _)
TrimStartMatches(s, p) ==
    IF Len(p) > 0 /\ StartsWith(s, p)
    THEN TrimStartMatches(SubSeq(s, Len(p) + 1, Len(s)), p)
    ELSE s

RECURSIVE TrimStart(_)
TrimStart(s) ==
    IF Len(s) > 0 /\ IsWhitespace(Head(s)) THEN TrimStart(Tail(s)) ELSE s

RECURSIVE TrimEnd(_)
TrimEnd(s) ==
    IF Len(s) > 0 /\ IsWhitespace(s[Len(s)])
    THEN TrimEnd(SubSeq(s, 1, Len(s) - 1))
    ELSE s

\* str::trim(): leading and trailing whitespace removed.
Trim(s) == TrimEnd(TrimStart(s))

\* A mutation of TokenStr: the scheme prefix is required, a bare token is
\* not accepted.
TokenStrPrefixRequired(v) ==
    IF StartsWith(v, Bearer) THEN Trim(TrimStartMatches(v, Bearer)) ELSE << >>

\* keys[0].trim_start_matches("Bearer ").trim()
TokenStr(v) == Trim(TrimStartMatches(v, Bearer))

(***************************************************************************)
(* JSON values of a token payload, tagged by their JSON type.              *)
(***************************************************************************)
JStr(x) == [t |-> "str", s |-> x]

JInt(n) == [t |-> "int", n |-> n]

JArr(a) == [t |-> "arr", a |-> a]

IsStr(v) == v.t = "str"

IsInt(v) == v.t = "int"

\* A JSON array of strings (the only arrays the payloads of the model carry).
IsStrArr(v) == v.t = "arr"

\* Option<String>
None == [some |-> FALSE]

Some(x) == [some |-> TRUE, val |-> x]

(***************************************************************************)
(* The three claims shapes.  Deserialize<Shape>(p) is serde's derived      *)
(* Deserialize on the payload object p (a function from the names of the   *)
(* fields present to their JSON values): [ok |-> FALSE] when a required    *)
(* field is absent or of the wrong type, the struct otherwise.  Fields the *)
(* struct does not declare are ignored.                                    *)
(***************************************************************************)
Has(p, f) == f \in DOMAIN p

Bad == [ok |-> FALSE]

Good(c) == [ok |-> TRUE, claims |-> c]

\* An Option<String> field: absent gives None, a string gives Some.
OptOk(p, f) == Has(p, f) => IsStr(p[f])

Opt(p, f) == IF Has(p, f) THEN Some(p[f].s) ELSE None

DeserializeISCClaims(p) ==
    IF /\ Has(p, "sub") /\ IsStr(p["sub"])
       /\ Has(p, "exp") /\ IsInt(p["exp"]) /\ p["exp"].n >= 0
       /\ Has(p, "org_id") /\ IsStr(p["org_id"])
       /\ Has(p, "scopes") /\ IsStrArr(p["scopes"])
    THEN Good([sub |-> p["sub"].s, exp |-> p["exp"].n,
               org_id |-> p["org_id"].s, scopes |-> p["scopes"].a])
    ELSE Bad

DeserializeAPIClaims(p) ==
    IF /\ Has(p, "sub") /\ IsStr(p["sub"])
       /\ Has(p, "exp") /\ IsInt(p["exp"]) /\ p["exp"].n >= 0
       /\ Has(p, "group_id") /\ IsInt(p["group_id"])
       /\ Has(p, "scopes") /\ IsStrArr(p["scopes"])
    THEN Good([sub |-> p["sub"].s, exp |-> p["exp"].n,
               group_id |-> p["group_id"].n, scopes |-> p["scopes"].a])
    ELSE Bad

\* A mutation of DeserializeClaims: first_name declared String, not
\* Option<String>.
DeserializeClaimsNameRequired(p) ==
    IF /\ Has(p, "sub") /\ IsStr(p["sub"])
       /\ Has(p, "exp") /\ IsInt(p["exp"]) /\ p["exp"].n >= 0
       /\ Has(p, "user_id") /\ IsStr(p["user_id"])
       /\ Has(p, "token_type") /\ IsStr(p["token_type"])
       /\ Has(p, "first_name") /\ IsStr(p["first_name"])
       /\ OptOk(p, "last_name")
       /\ OptOk(p, "middle_name") /\ OptOk(p, "client_id")
    THEN Good([sub |-> p["sub"].s, exp |-> p["exp"].n,
               user_id |-> p["user_id"].s, token_type |-> p["token_type"].s,
               first_name |-> Some(p["first_name"].s),
               last_name |-> Opt(p, "last_name"),
               middle_name |-> Opt(p, "middle_name"),
               client_id |-> Opt(p, "client_id")])
    ELSE Bad

\* A mutation of DeserializeClaims: only an access token is accepted.
DeserializeClaimsAccessOnly(p) ==
    IF /\ Has(p, "sub") /\ IsStr(p["sub"])
       /\ Has(p, "exp") /\ IsInt(p["exp"]) /\ p["exp"].n >= 0
       /\ Has(p, "user_id") /\ IsStr(p["user_id"])
       /\ Has(p, "token_type") /\ p["token_type"] = JStr("access")
       /\ OptOk(p, "first_name") /\ OptOk(p, "last_name")
       /\ OptOk(p, "middle_name") /\ OptOk(p, "client_id")
    THEN Good([sub |-> p["sub"].s, exp |-> p["exp"].n,
               user_id |-> p["user_id"].s, token_type |-> p["token_type"].s,
               first_name |-> Opt(p, "first_name"),
               last_name |-> Opt(p, "last_name"),
               middle_name |-> Opt(p, "middle_name"),
               client_id |-> Opt(p, "client_id")])
    ELSE Bad

DeserializeClaims(p) ==
    IF /\ Has(p, "sub") /\ IsStr(p["sub"])
       /\ Has(p, "exp") /\ IsInt(p["exp"]) /\ p["exp"].n >= 0
       /\ Has(p, "user_id") /\ IsStr(p["user_id"])
       /\ Has(p, "token_type") /\ IsStr(p["token_type"])
       /\ OptOk(p, "first_name") /\ OptOk(p, "last_name")
       /\ OptOk(p, "middle_name") /\ OptOk(p, "client_id")
    THEN Good([sub |-> p["sub"].s, exp |-> p["exp"].n,
               user_id |-> p["user_id"].s, token_type |-> p["token_type"].s,
               first_name |-> Opt(p, "first_name"),
               last_name |-> Opt(p, "last_name"),
               middle_name |-> Opt(p, "middle_name"),
               client_id |-> Opt(p, "client_id")])
    ELSE Bad

Guards == {"ISCClaims", "APIClaims", "Claims"}

\* A mutation of Deserialize: every guard decodes the API-key shape.
DeserializeOneShape(g, p) == DeserializeAPIClaims(p)

\* decode::<T>: the claims type each guard instantiates decode with.
Deserialize(g, p) ==
    CASE g = "ISCClaims" -> DeserializeISCClaims(p)
      [] g = "APIClaims" -> DeserializeAPIClaims(p)
      [] g = "Claims" -> DeserializeClaims(p)

(***************************************************************************)
(* jsonwebtoken::decode under Validation::new(Algorithm::HS256).  A token  *)
(* is [alg, key, payload]: the algorithm its header declares, the secret   *)
(* its signature was made with, and its payload object.                    *)
(***************************************************************************)
\* Validation::new sets leeway to 60 seconds.
Leeway == 60

Algorithms == {"HS256", "HS384"}

\* A mutation of AlgorithmAccepted: the algorithm is taken from the token.
AlgorithmFromToken(alg) == alg \in Algorithms

\* validation.algorithms = [HS256] must contain the header's alg.
AlgorithmAccepted(alg) == alg = "HS256"

\* A mutation of SignatureValid: the signature is not verified.
SignatureUnchecked(t, secret) == TRUE

\* The HMAC over the token's message under the decoding key matches.
SignatureValid(t, secret) == t.key = secret

\* A mutation of Expired: validate_exp switched off.
ExpiryUnchecked(exp, instant) == FALSE

\* validate_exp: ExpiredSignature when exp < now - leeway.
Expired(exp, instant) == exp < instant - Leeway

\* The candidate is the compact text of exactly one token.
WellFormed(token_str) == Len(token_str) = 1 /\ IsJwt(token_str[1])

\* decode::<T>(token_str, &decoding_key, &validation): Ok(claims) or Err.
Decode(g, token_str, secret, instant) ==
    IF ~WellFormed(token_str) THEN Bad
    ELSE LET t == token_str[1].jwt
             d == Deserialize(g, t.payload)
         IN IF /\ AlgorithmAccepted(t.alg)
               /\ SignatureValid(t, secret)
               /\ d.ok
               /\ ~Expired(d.claims.exp, instant)
            THEN d
            ELSE Bad

(***************************************************************************)
(* Outcomes of from_request.                                               *)
(***************************************************************************)
NoOutcome == [kind |-> "none"]

Success(c) == [kind |-> "Success", claims |-> c]

\* Outcome::Error((Status::Unauthorized, e))
Failure(e) == [kind |-> "Error", status |-> "Unauthorized", error |-> e]

\* request.headers().get(name) of each guard.
HeaderName(g) == IF g = "Claims" THEN "Authorization" ELSE "X-API-Authorization"

HeaderNames == {"Authorization", "X-API-Authorization"}

\* A mutation of IsMissing: only an absent header is missing, the first of
\* several values is taken.
IsMissingOnlyWhenAbsent(ks) == Len(ks) = 0

\* keys.len() != 1
IsMissing(ks) == Len(ks) # 1

(***************************************************************************)
(* The requests of the model.                                              *)
(***************************************************************************)
Secrets == {"s1", "s2"}

\* An expiry that no clock value of the model reaches.
Future == StartTime + MaxTicks + Leeway + 1

ExpChoices ==
    {StartTime - Leeway - 1, StartTime - Leeway, StartTime - 1, StartTime,
     StartTime + MaxTicks, Future}

ISCPayload(e) ==
    [sub |-> JStr("svc"), exp |-> JInt(e), org_id |-> JStr("org1"),
     scopes |-> JArr(<<"read">>)]

APIPayload(e) ==
    [sub |-> JStr("key"), exp |-> JInt(e), group_id |-> JInt(7),
     scopes |-> JArr(<<"read", "write">>)]

UserPayload(e, tt) ==
    [sub |-> JStr("u1"), exp |-> JInt(e), user_id |-> JStr("u1"),
     token_type |-> JStr(tt)]

UserPayloadFull(e) ==
    [sub |-> JStr("u1"), exp |-> JInt(e), user_id |-> JStr("u1"),
     token_type |-> JStr("access"), first_name |-> JStr("Ada"),
     last_name |-> JStr("Byron"), middle_name |-> JStr("K"),
     client_id |-> JStr("web")]

RequiredFields(g) ==
    CASE g = "ISCClaims" -> {"sub", "exp", "org_id", "scopes"}
      [] g = "APIClaims" -> {"sub", "exp", "group_id", "scopes"}
      [] g = "Claims" -> {"sub", "exp", "user_id", "token_type"}

OptionalFields(g) ==
    IF g = "Claims"
    THEN {"first_name", "last_name", "middle_name", "client_id"}
    ELSE {}

\* The payload p without its field f.
Drop(p, f) == [x \in DOMAIN p \ {f} |-> p[x]]

\* The payload p with its field f given a value of another JSON type.
Retype(p, f) == [p EXCEPT ![f] = IF IsStr(p[f]) THEN JInt(1) ELSE JStr("x")]

WholePayloads ==
    {ISCPayload(e) : e \in ExpChoices}
    \cup {APIPayload(e) : e \in ExpChoices}
    \cup {UserPayload(e, "access") : e \in ExpChoices}
    \cup {UserPayload(Future, "refresh"), UserPayloadFull(Future)}

DefectPayloads ==
    {Drop(ISCPayload(Future), f) : f \in RequiredFields("ISCClaims")}
    \cup {Retype(ISCPayload(Future), f) : f \in RequiredFields("ISCClaims")}
    \cup {Drop(APIPayload(Future), f) : f \in RequiredFields("APIClaims")}
    \cup {Retype(APIPayload(Future), f) : f \in RequiredFields("APIClaims")}
    \cup {Drop(UserPayload(Future, "access"), f) : f \in RequiredFields("Claims")}
    \cup {Retype(UserPayload(Future, "access"), f) : f \in RequiredFields("Claims")}
    \cup {Retype(UserPayloadFull(Future), "client_id")}

Payloads == WholePayloads \cup DefectPayloads

Tokens == [alg : Algorithms, key : Secrets, payload : Payloads]

\* The tokens carried under the less common spellings of a header value.
SampleTokens ==
    {[alg |-> "HS256", key |-> "s1", payload |-> p] :
        p \in {ISCPayload(Future), APIPayload(Future),
               UserPayload(Future, "access")}}

HeaderValues ==
    {Jwt(t) : t \in Tokens}
    \cup {Bearer \o Jwt(t) : t \in Tokens}
    \cup {Bearer \o Space \o Jwt(t) : t \in SampleTokens}
    \cup {Bearer \o Bearer \o Jwt(t) : t \in SampleTokens}
    \cup {LowerBearer \o Jwt(t) : t \in SampleTokens}
    \cup {Space \o Jwt(t) \o Space : t \in SampleTokens}
    \cup {Space \o Bearer \o Jwt(t) : t \in SampleTokens}
    \cup {Jwt(t) \o Space \o Jwt(t) : t \in SampleTokens}
    \cup {<< >>, Bearer, Text(<<"x">>)}

\* The values a header carries when it occurs more than once.
RepeatedValues == {Bearer \o Jwt(t) : t \in SampleTokens}

HeaderLists ==
    {<< >>}
    \cup {<<v>> : v \in HeaderValues}
    \cup {<<v, w>> : v \in RepeatedValues, w \in RepeatedValues}
    \cup {<<v, v, v>> : v \in RepeatedValues}

SmallLists == {<< >>} \cup {<<v>> : v \in RepeatedValues}

\* The header map with the list l under name n and nothing under the other.
Only(n, l) == [x \in HeaderNames |-> IF x = n THEN l ELSE << >>]

Requests ==
    {[guard |-> g, headers |-> Only(HeaderName(g), l)] :
        g \in Guards, l \in HeaderLists}
    \cup [guard : Guards, headers : [HeaderNames -> SmallLists]]

ConcurrentToken ==
    [alg |-> "HS256", key |-> "s1", payload |-> UserPayload(Future, "access")]

ConcurrentRefreshToken ==
    [alg |-> "HS256", key |-> "s1", payload |-> UserPayload(Future, "refresh")]

ConcurrentValues ==
    {Jwt(ConcurrentToken), Bearer \o Jwt(ConcurrentToken),
     Bearer \o Space \o Jwt(ConcurrentToken),
     Bearer \o Jwt(ConcurrentRefreshToken)}

\* The requests of a run with two evaluations in flight.
ConcurrentRequests ==
    {[guard |-> g, headers |-> Only(HeaderName(g), l)] :
        g \in {"ISCClaims", "Claims"},
        l \in {<< >>} \cup {<<v>> : v \in ConcurrentValues}}

Slots == {"r1", "r2"}

\* No request yet: no guard, no header.
NoRequest == [guard |-> "none", headers |-> [x \in HeaderNames |-> << >>]]

\* No Version is being formatted.
NoVersion == [pc |-> "none"]

(***************************************************************************)
(* State.                                                                  *)
(***************************************************************************)
VARIABLES
    env,        \* the binding of JWT_SECRET in the process environment
    now,        \* the system clock, in epoch seconds
    concurrent, \* whether the run has two evaluations in flight
    pc,         \* each evaluation's position in from_request
    request,    \* the request each evaluation is given
    keys,       \* the local keys
    token_str,  \* the local token_str
    secret,     \* the local secret
    instant,    \* the clock value decode read for the expiry check
    outcome,    \* what from_request returned
    trace,      \* the stages each evaluation has entered, in order
    ver         \* a Version, its formatted text and the Version parsed from it

vars ==
    <<env, now, concurrent, pc, request, keys, token_str, secret, instant, outcome,
      trace, ver>>

Init ==
    /\ env \in {None} \cup {Some(k) : k \in Secrets}
    /\ now = StartTime
    /\ concurrent \in BOOLEAN
    /\ pc = [r \in Slots |-> "Idle"]
    /\ request = [r \in Slots |-> NoRequest]
    /\ keys = [r \in Slots |-> << >>]
    /\ token_str = [r \in Slots |-> << >>]
    /\ secret = [r \in Slots |-> None]
    /\ instant = [r \in Slots |-> None]
    /\ outcome = [r \in Slots |-> NoOutcome]
    /\ trace = [r \in Slots |-> << >>]
    /\ ver = NoVersion

\* The host pipeline calls from_request of guard req.guard on a request.
Receive(r, req) ==
    /\ pc[r] = "Idle"
    /\ IF concurrent THEN req \in ConcurrentRequests ELSE r = "r1"
    /\ pc' = [pc EXCEPT ![r] = "Start"]
    /\ request' = [request EXCEPT ![r] = req]
    /\ trace' = [trace EXCEPT ![r] = <<"Start">>]
    /\ UNCHANGED ver
    /\ UNCHANGED <<env, now, concurrent, keys, token_str, secret, instant, outcome>>

\* A mutation of HeaderLookup: the secret is read before the count check.
HeaderLookupReadsSecret(r) ==
    /\ pc[r] = "Start"
    /\ keys' = [keys EXCEPT ![r] = request[r].headers[HeaderName(request[r].guard)]]
    /\ secret' = [secret EXCEPT ![r] = env]
    /\ pc' = [pc EXCEPT ![r] = "HeaderLookup"]
    /\ trace' = [trace EXCEPT ![r] = Append(@, "HeaderLookup")]
    /\ UNCHANGED ver
    /\ UNCHANGED <<env, now, concurrent, request, token_str, instant, outcome>>

\* let keys: Vec<_> = request.headers().get(NAME).collect();
HeaderLookup(r) ==
    /\ pc[r] = "Start"
    /\ keys' = [keys EXCEPT ![r] = request[r].headers[HeaderName(request[r].guard)]]
    /\ pc' = [pc EXCEPT ![r] = "HeaderLookup"]
    /\ trace' = [trace EXCEPT ![r] = Append(@, "HeaderLookup")]
    /\ UNCHANGED ver
    /\ UNCHANGED <<env, now, concurrent, request, token_str, secret, instant, outcome>>

\* if keys.len() != 1 { return Outcome::Error((Unauthorized, Missing)); }
CheckCount(r) ==
    /\ pc[r] = "HeaderLookup"
    /\ IF IsMissing(keys[r])
       THEN /\ pc' = [pc EXCEPT ![r] = "Missing"]
            /\ outcome' = [outcome EXCEPT ![r] = Failure("Missing")]
            /\ trace' = [trace EXCEPT ![r] = Append(@, "Missing")]
       ELSE /\ pc' = [pc EXCEPT ![r] = "HeaderFound"]
            /\ trace' = [trace EXCEPT ![r] = Append(@, "HeaderFound")]
            /\ UNCHANGED outcome
    /\ UNCHANGED ver
    /\ UNCHANGED <<env, now, concurrent, request, keys, token_str, secret, instant>>

\* let token_str = keys[0].trim_start_matches("Bearer ").trim();
StripPrefix(r) ==
    /\ pc[r] = "HeaderFound"
    /\ token_str' = [token_str EXCEPT ![r] = TokenStr(keys[r][1])]
    /\ pc' = [pc EXCEPT ![r] = "Decode"]
    /\ trace' = [trace EXCEPT ![r] = Append(@, "Decode")]
    /\ UNCHANGED ver
    /\ UNCHANGED <<env, now, concurrent, request, keys, secret, instant, outcome>>

\* let secret = env::var("JWT_SECRET").expect("JWT_SECRET must be set");
ReadSecret(r) ==
    /\ pc[r] = "Decode"
    /\ IF env.some
       THEN /\ secret' = [secret EXCEPT ![r] = env]
            /\ pc' = [pc EXCEPT ![r] = "Verify"]
       ELSE /\ pc' = [pc EXCEPT ![r] = "Panicked"]
            /\ UNCHANGED secret
    /\ UNCHANGED ver
    /\ UNCHANGED <<env, now, concurrent, request, keys, token_str, instant, outcome,
                   trace>>

\* match decode::<T>(token_str, &decoding_key, &Validation::new(HS256))
DecodeToken(r) ==
    /\ pc[r] = "Verify"
    /\ instant' = [instant EXCEPT ![r] = Some(now)]
    /\ LET d == Decode(request[r].guard, token_str[r], secret[r].val, now)
       IN IF d.ok
          THEN /\ pc' = [pc EXCEPT ![r] = "Success"]
               /\ outcome' = [outcome EXCEPT ![r] = Success(d.claims)]
               /\ trace' = [trace EXCEPT ![r] = Append(@, "Success")]
          ELSE /\ pc' = [pc EXCEPT ![r] = "Invalid"]
               /\ outcome' = [outcome EXCEPT ![r] = Failure("Invalid")]
               /\ trace' = [trace EXCEPT ![r] = Append(@, "Invalid")]
    /\ UNCHANGED ver
    /\ UNCHANGED <<env, now, concurrent, request, keys, token_str, secret>>

\* The system clock advances by a second.
Tick ==
    /\ now < StartTime + MaxTicks
    /\ now' = now + 1
    /\ UNCHANGED ver
    /\ UNCHANGED <<env, concurrent, pc, request, keys, token_str, secret, instant,
                   outcome, trace>>

Next ==
    \/ \E r \in Slots, req \in Requests : Receive(r, req)
    \/ \E r \in Slots : HeaderLookup(r)
    \/ \E r \in Slots : CheckCount(r)
    \/ \E r \in Slots : StripPrefix(r)
    \/ \E r \in Slots : ReadSecret(r)
    \/ \E r \in Slots : DecodeToken(r)
    \/ Tick

Spec == Init /\ [][Next]_vars

(***************************************************************************)
(* The process environment is global and mutable: from_request looks       *)
(* JWT_SECRET up in it on every call, so whatever other code of the        *)
(* process does to the binding (std::env::set_var, remove_var) is seen by  *)
(* the next evaluation.  SpecEnv is Spec, on runs with two evaluations in  *)
(* flight, with that activity.                                             *)
(***************************************************************************)
EnvBindings == {None} \cup {Some(k) : k \in Secrets}

\* Other code of the process rebinds or removes JWT_SECRET.
SetEnv(b) ==
    /\ b # env
    /\ env' = b
    /\ UNCHANGED ver
    /\ UNCHANGED <<now, concurrent, pc, request, keys, token_str, secret, instant,
                   outcome, trace>>

InitEnv == Init /\ concurrent

NextEnv ==
    \/ \E r \in Slots, req \in Requests : Receive(r, req)
    \/ \E r \in Slots : HeaderLookup(r)
    \/ \E r \in Slots : CheckCount(r)
    \/ \E r \in Slots : StripPrefix(r)
    \/ \E r \in Slots : ReadSecret(r)
    \/ \E r \in Slots : DecodeToken(r)
    \/ Tick
    \/ \E b \in EnvBindings : SetEnv(b)

SpecEnv == InitEnv /\ [][NextEnv]_vars

(***************************************************************************)
(* Version (src/src/lib.rs): its text form and the parser of that form.    *)
(***************************************************************************)
\* The largest major, minor, patch and revision of the small versions.
MaxVersionNumber == 2

Channels == {"Final", "Nightly", "Alpha", "Beta"}

\* impl fmt::Display for Channel
ChannelText(ch) ==
    CASE ch = "Nightly" -> Text(<<"n", "i", "g", "h", "t", "l", "y">>)
      [] ch = "Final" -> Text(<<"f", "i", "n", "a", "l">>)
      [] ch = "Alpha" -> Text(<<"a", "l", "p", "h", "a">>)
      [] ch = "Beta" -> Text(<<"b", "e", "t", "a">>)

\* impl From<&str> for Channel: an unrecognized name ends the process.
ChannelFrom(s) ==
    CASE s = Text(<<"n", "i", "g", "h", "t", "l", "y">>) -> "Nightly"
      [] s = Text(<<"a", "l", "p", "h", "a">>) -> "Alpha"
      [] s = Text(<<"b", "e", "t", "a">>) -> "Beta"
      [] s = Text(<<"f", "i", "n", "a", "l">>) -> "Final"
      [] OTHER -> "exit"

DigitChars == <<"0", "1", "2", "3", "4", "5", "6", "7", "8", "9">>

IsDigit(e) == \E d \in 1..10 : e = Chr(DigitChars[d])

DigitValue(e) == (CHOOSE d \in 1..10 : e = Chr(DigitChars[d])) - 1

\* Display for u32: the decimal digits of n.
RECURSIVE Decimal(_)
Decimal(n) ==
    IF n < 10
    THEN <<Chr(DigitChars[n + 1])>>
    ELSE Decimal(n \div 10) \o <<Chr(DigitChars[(n % 10) + 1])>>

RECURSIVE DigitsValue(_, _)
DigitsValue(s, acc) ==
    IF s = << >> THEN acc ELSE DigitsValue(Tail(s), 10 * acc + DigitValue(Head(s)))

\* part.parse().unwrap_or(0), on the numbers of the model (all below 2^32).
ParseOrZero(s) ==
    IF s # << >> /\ \A i \in DOMAIN s : IsDigit(s[i]) THEN DigitsValue(s, 0) ELSE 0

IsSeparator(e) == e = Chr(".") \/ e = Chr("-")

\* version.split(|c| c == '.' || c == '-').collect(): parts holds the parts
\* closed so far, cur the part being read.
RECURSIVE SplitFrom(_, _, _)
SplitFrom(s, parts, cur) ==
    IF s = << >> THEN Append(parts, cur)
    ELSE IF IsSeparator(Head(s)) THEN SplitFrom(Tail(s), Append(parts, cur), << >>)
    ELSE SplitFrom(Tail(s), parts, Append(cur, Head(s)))

Split(s) == SplitFrom(s, << >>, << >>)

Dot == Text(<<".">>)

Dash == Text(<<"-">>)

\* Version::formatted
Formatted(v) ==
    IF v.channel = "Final"
    THEN Decimal(v.major) \o Dot \o Decimal(v.minor) \o Dot \o Decimal(v.patch)
    ELSE Decimal(v.major) \o Dot \o Decimal(v.minor) \o Dot \o Decimal(v.patch)
         \o Dash \o ChannelText(v.channel) \o Dot \o Decimal(v.revision)

Parsed(v) == [kind |-> "Version", v |-> v]

\* Version::from_str: a panic on a missing part, the end of the process on
\* an unrecognized channel, the Version otherwise.
FromStr(s) ==
    LET parts == Split(s)
    IN IF Len(parts) < 3 \/ Len(parts) = 4 THEN [kind |-> "panic"]
       ELSE IF Len(parts) > 3 /\ ChannelFrom(parts[4]) = "exit" THEN [kind |-> "exit"]
       ELSE Parsed([major |-> ParseOrZero(parts[1]),
                    minor |-> ParseOrZero(parts[2]),
                    patch |-> ParseOrZero(parts[3]),
                    channel |-> IF Len(parts) > 3 THEN ChannelFrom(parts[4])
                                ELSE "Final",
                    revision |-> IF Len(parts) > 3 THEN ParseOrZero(parts[5])
                                 ELSE 0])

\* impl PartialEq for Version
VersionEq(a, b) ==
    /\ a.major = b.major
    /\ a.minor = b.minor
    /\ a.patch = b.patch
    /\ a.channel = b.channel
    /\ a.revision = b.revision

VersionNumbers == 0..MaxVersionNumber \cup {MaxVersionNumber + 10}

Versions ==
    [channel : Channels, major : VersionNumbers, minor : VersionNumbers,
     patch : VersionNumbers, revision : VersionNumbers]

\* No request is evaluated; one Version is given.
InitVersion ==
    /\ env = None
    /\ now = StartTime
    /\ concurrent = FALSE
    /\ pc = [r \in Slots |-> "Idle"]
    /\ request = [r \in Slots |-> NoRequest]
    /\ keys = [r \in Slots |-> << >>]
    /\ token_str = [r \in Slots |-> << >>]
    /\ secret = [r \in Slots |-> None]
    /\ instant = [r \in Slots |-> None]
    /\ outcome = [r \in Slots |-> NoOutcome]
    /\ trace = [r \in Slots |-> << >>]
    /\ ver \in {[pc |-> "given", v |-> v] : v \in Versions}

\* let text = v.formatted();
Format ==
    /\ ver.pc = "given"
    /\ ver' = [pc |-> "formatted", v |-> ver.v, text |-> Formatted(ver.v)]
    /\ UNCHANGED <<env, now, concurrent, pc, request, keys, token_str, secret,
                   instant, outcome, trace>>

\* Version::from_str(&text)
Parse ==
    /\ ver.pc = "formatted"
    /\ ver' = [pc |-> "parsed", v |-> ver.v, text |-> ver.text,
               parsed |-> FromStr(ver.text)]
    /\ UNCHANGED <<env, now, concurrent, pc, request, keys, token_str, secret,
                   instant, outcome, trace>>

NextVersion == Format \/ Parse

SpecVersion == InitVersion /\ [][NextVersion]_vars

(***************************************************************************)
(* Vocabulary of the properties, stated on the request an evaluation was   *)
(* given and on what it returned.                                          *)
(***************************************************************************)
\* The values the request carries under the guard's header name.
Carried(r) == request[r].headers[HeaderName(request[r].guard)]

Returned(r) == outcome[r] # NoOutcome

\* The tokens whose text occurs in the header value v.
TokensIn(v) == {v[i].jwt : i \in {j \in DOMAIN v : IsJwt(v[j])}}

\* The header value v is the token t, bare or after the scheme prefix.
IsToken(v, t) == v = Jwt(t) \/ v = Bearer \o Jwt(t)

\* The JSON type each claims field is declared with.
FieldOk(f, v) ==
    CASE f = "exp" -> IsInt(v) /\ v.n >= 0
      [] f = "group_id" -> IsInt(v)
      [] f = "scopes" -> IsStrArr(v)
      [] OTHER -> IsStr(v)

\* The payload p carries a field f of the guard's shape with its type.
Carries(p, f) == Has(p, f) /\ FieldOk(f, p[f])

WellShaped(g, p) ==
    /\ \A f \in RequiredFields(g) : Carries(p, f)
    /\ \A f \in OptionalFields(g) : Has(p, f) => FieldOk(f, p[f])

Raw(v) == CASE IsStr(v) -> v.s [] IsInt(v) -> v.n [] IsStrArr(v) -> v.a

\* The claims record c has the fields of the guard's shape, each equal to
\* the payload's field (an optional field: Some of it, or None when absent).
ClaimsEqualPayload(g, c, p) ==
    /\ DOMAIN c = RequiredFields(g) \cup OptionalFields(g)
    /\ \A f \in RequiredFields(g) : c[f] = Raw(p[f])
    /\ \A f \in OptionalFields(g) :
          c[f] = IF Has(p, f) THEN Some(Raw(p[f])) ELSE None

\* The token t is signed with the configured secret under HS256.
SignedCorrectly(t) == env.some /\ t.key = env.val /\ t.alg = "HS256"

(***************************************************************************)
(* C1.  Whenever the request carries zero values or two or more values     *)
(* under the guard's header name, the evaluation, once past the count      *)
(* check, has returned Failure(Missing), whatever the values are.          *)
(***************************************************************************)
C1_MissingUnlessOneValue ==
    \A r \in Slots :
        (pc[r] \notin {"Idle", "Start", "HeaderLookup"} /\ Len(Carried(r)) # 1)
            => pc[r] = "Missing" /\ outcome[r] = Failure("Missing")

\* Two values, each by itself a token the guard accepts, gave Missing.
C1_Witness ==
    \E r \in Slots :
        /\ outcome[r] = Failure("Missing")
        /\ Len(Carried(r)) = 2
        /\ env.some
        /\ \A i \in 1..2 :
              \E t \in Tokens :
                  /\ Carried(r)[i] = Bearer \o Jwt(t)
                  /\ SignedCorrectly(t)
                  /\ WellShaped(request[r].guard, t.payload)
                  /\ t.payload["exp"].n > now

(***************************************************************************)
(* C2.  When the request carries exactly one value and it is a token (bare *)
(* or after the scheme prefix) signed with the configured secret under     *)
(* HS256, unexpired at the evaluation instant and carrying the fields of   *)
(* the guard's shape, the guard returns Success with a claims record whose *)
(* fields equal the payload's.                                             *)
(***************************************************************************)
C2_ValidTokenSucceeds ==
    \A r \in Slots :
        \A t \in TokensIn(IF Len(Carried(r)) = 1 THEN Carried(r)[1] ELSE << >>) :
            ( /\ Returned(r)
              /\ IsToken(Carried(r)[1], t)
              /\ SignedCorrectly(t)
              /\ WellShaped(request[r].guard, t.payload)
              /\ instant[r].some /\ instant[r].val <= t.payload["exp"].n )
            => /\ outcome[r].kind = "Success"
               /\ ClaimsEqualPayload(request[r].guard, outcome[r].claims, t.payload)

\* The user-session guard succeeded on a payload of only sub, exp, user_id
\* and token_type, with the payload's user_id in the claims.
C2_Witness ==
    \E r \in Slots :
        /\ request[r].guard = "Claims"
        /\ outcome[r].kind = "Success"
        /\ \E t \in Tokens :
              /\ Carried(r) = <<Bearer \o Jwt(t)>>
              /\ DOMAIN t.payload = {"sub", "exp", "user_id", "token_type"}
              /\ t.payload["user_id"] = JStr("u1")
        /\ outcome[r].claims.user_id = "u1"
        /\ outcome[r].claims.client_id = None

(***************************************************************************)
(* C3.  When the single header value is a token signed with a secret other *)
(* than the configured JWT_SECRET, the guard returns Failure(Invalid),     *)
(* whatever the token's payload is.                                        *)
(***************************************************************************)
C3_WrongSecretInvalid ==
    \A r \in Slots :
        ( /\ Returned(r)
          /\ Len(Carried(r)) = 1
          /\ env.some
          /\ TokensIn(Carried(r)[1]) # {}
          /\ \A t \in TokensIn(Carried(r)[1]) : t.key # env.val )
        => outcome[r] = Failure("Invalid")

\* A token that only its signing secret keeps from being accepted was
\* returned Invalid.
C3_Witness ==
    \E r \in Slots :
        /\ outcome[r] = Failure("Invalid")
        /\ env.some
        /\ \E t \in Tokens :
              /\ Carried(r) = <<Bearer \o Jwt(t)>>
              /\ t.key # env.val
              /\ t.alg = "HS256"
              /\ WellShaped(request[r].guard, t.payload)
              /\ instant[r].val <= t.payload["exp"].n

(***************************************************************************)
(* C4 as stated.  A correctly signed token whose exp is less than the      *)
(* evaluation instant, by one second or more, is returned Invalid, and a   *)
(* token is accepted only when the evaluation instant is at most exp.      *)
(***************************************************************************)
C4_ExpiredBySecondsInvalid ==
    \A r \in Slots :
        /\ \A t \in TokensIn(IF Len(Carried(r)) = 1 THEN Carried(r)[1] ELSE << >>) :
              ( /\ Returned(r)
                /\ SignedCorrectly(t)
                /\ Carries(t.payload, "exp")
                /\ t.payload["exp"].n < instant[r].val )
              => outcome[r] = Failure("Invalid")
        /\ outcome[r].kind = "Success"
              => instant[r].val <= outcome[r].claims.exp

(***************************************************************************)
(* C4 as amended.  A correctly signed token whose exp is less than the     *)
(* evaluation instant minus the 60 seconds of leeway is returned Invalid,  *)
(* and a token is accepted only when the evaluation instant is at most     *)
(* exp plus the leeway.                                                    *)
(***************************************************************************)
C4_ExpiredBeyondLeewayInvalid ==
    \A r \in Slots :
        /\ \A t \in TokensIn(IF Len(Carried(r)) = 1 THEN Carried(r)[1] ELSE << >>) :
              ( /\ Returned(r)
                /\ SignedCorrectly(t)
                /\ Carries(t.payload, "exp")
                /\ t.payload["exp"].n < instant[r].val - Leeway )
              => outcome[r] = Failure("Invalid")
        /\ outcome[r].kind = "Success"
              => instant[r].val <= outcome[r].claims.exp + Leeway

\* A token that only its expiry, 61 seconds before the evaluation instant,
\* keeps from being accepted was returned Invalid.
C4_Witness ==
    \E r \in Slots :
        /\ outcome[r] = Failure("Invalid")
        /\ \E t \in Tokens :
              /\ Carried(r) = <<Bearer \o Jwt(t)>>
              /\ SignedCorrectly(t)
              /\ WellShaped(request[r].guard, t.payload)
              /\ t.payload["exp"].n = instant[r].val - Leeway - 1

(***************************************************************************)
(* C5.  When the single header value is a correctly signed token whose     *)
(* payload lacks a required field of the guard's claims shape, or carries  *)
(* it with the wrong type, the guard returns Failure(Invalid).             *)
(***************************************************************************)
C5_MissingFieldInvalid ==
    \A r \in Slots :
        \A t \in TokensIn(IF Len(Carried(r)) = 1 THEN Carried(r)[1] ELSE << >>) :
            ( /\ Returned(r)
              /\ SignedCorrectly(t)
              /\ \E f \in RequiredFields(request[r].guard) : ~Carries(t.payload, f) )
            => outcome[r] = Failure("Invalid")

\* A token that APIClaims accepts, without org_id, was returned Invalid by
\* ISCClaims.
C5_Witness ==
    \E r \in Slots :
        /\ request[r].guard = "ISCClaims"
        /\ outcome[r] = Failure("Invalid")
        /\ \E t \in Tokens :
              /\ Carried(r) = <<Bearer \o Jwt(t)>>
              /\ SignedCorrectly(t)
              /\ WellShaped("APIClaims", t.payload)
              /\ ~Has(t.payload, "org_id")
              /\ instant[r].val <= t.payload["exp"].n

(***************************************************************************)
(* C6.  Scheme-prefix leniency: a single header value that is an otherwise *)
(* valid token t, bare, after "Bearer " or after "Bearer " and a further   *)
(* space, is returned Success; and two evaluations of the same guard, one  *)
(* on the bare t and one on a prefixed t, that both returned Success       *)
(* returned identical claims.                                              *)
(***************************************************************************)
PrefixForms(t) == {Jwt(t), Bearer \o Jwt(t), Bearer \o Space \o Jwt(t)}

C6_PrefixLeniency ==
    /\ \A r \in Slots :
          \A t \in TokensIn(IF Len(Carried(r)) = 1 THEN Carried(r)[1] ELSE << >>) :
              ( /\ Returned(r)
                /\ Carried(r)[1] \in PrefixForms(t)
                /\ SignedCorrectly(t)
                /\ WellShaped(request[r].guard, t.payload)
                /\ instant[r].some /\ instant[r].val <= t.payload["exp"].n )
              => outcome[r].kind = "Success"
    /\ \A r, q \in Slots :
          ( /\ outcome[r].kind = "Success" /\ outcome[q].kind = "Success"
            /\ request[r].guard = request[q].guard
            /\ \E t \in TokensIn(Carried(r)[1]) :
                  /\ Carried(r)[1] = Jwt(t)
                  /\ Carried(q)[1] \in PrefixForms(t) )
          => outcome[r].claims = outcome[q].claims

\* Two evaluations, one on the bare token and one on "Bearer " and a space
\* before the same token, both returned Success.
C6_Witness ==
    \E r, q \in Slots :
        /\ outcome[r].kind = "Success" /\ outcome[q].kind = "Success"
        /\ \E t \in Tokens :
              /\ Carried(r) = <<Jwt(t)>>
              /\ Carried(q) = <<Bearer \o Space \o Jwt(t)>>

(***************************************************************************)
(* C7.  No guard evaluates a request, or returns any outcome, while        *)
(* JWT_SECRET is unbound: its absence is detected before any request is    *)
(* served.                                                                 *)
(***************************************************************************)
C7_NoEvaluationWithoutSecret ==
    ~env.some => \A r \in Slots : pc[r] = "Idle" /\ ~Returned(r)

(***************************************************************************)
(* C8.  A token whose header declares an algorithm other than HS256 is     *)
(* returned Invalid, also when it is signed with the configured secret.    *)
(***************************************************************************)
C8_OtherAlgorithmInvalid ==
    \A r \in Slots :
        \A t \in TokensIn(IF Len(Carried(r)) = 1 THEN Carried(r)[1] ELSE << >>) :
            (Returned(r) /\ t.alg # "HS256") => outcome[r] = Failure("Invalid")

\* A token that only its declared algorithm keeps from being accepted was
\* returned Invalid.
C8_Witness ==
    \E r \in Slots :
        /\ outcome[r] = Failure("Invalid")
        /\ env.some
        /\ \E t \in Tokens :
              /\ Carried(r) = <<Bearer \o Jwt(t)>>
              /\ t.alg = "HS384"
              /\ t.key = env.val
              /\ WellShaped(request[r].guard, t.payload)
              /\ instant[r].val <= t.payload["exp"].n

(***************************************************************************)
(* C9.  Every evaluation that has ended has exactly one of the outcomes    *)
(* Success(claims), Failure(Missing) and Failure(Invalid): none ends in a  *)
(* panic or without an outcome.                                            *)
(***************************************************************************)
Ended(r) == pc[r] \in {"Missing", "Invalid", "Success", "Panicked"}

C9_EndsWithAnOutcome ==
    \A r \in Slots :
        Ended(r) =>
            \/ outcome[r].kind = "Success"
            \/ outcome[r] = Failure("Missing")
            \/ outcome[r] = Failure("Invalid")

(***************************************************************************)
(* C10.  The stages an evaluation has entered are an initial part of       *)
(* Start, HeaderLookup, Missing or of Start, HeaderLookup, HeaderFound,    *)
(* Decode, then Invalid or Success, and the evaluation is in the last of   *)
(* them; at Missing the secret was not read and nothing was stripped or    *)
(* decoded; at Invalid and Success the lookup had found exactly one value. *)
(***************************************************************************)
IsPrefix(a, b) == Len(a) <= Len(b) /\ a = SubSeq(b, 1, Len(a))

\* The stage of the state machine each position of from_request is in.
StageOf(p) == IF p \in {"Verify", "Panicked"} THEN "Decode" ELSE p

C10_StageOrder ==
    \A r \in Slots :
        /\ \/ IsPrefix(trace[r], <<"Start", "HeaderLookup", "Missing">>)
           \/ IsPrefix(trace[r], <<"Start", "HeaderLookup", "HeaderFound",
                                   "Decode", "Invalid">>)
           \/ IsPrefix(trace[r], <<"Start", "HeaderLookup", "HeaderFound",
                                   "Decode", "Success">>)
        /\ IF pc[r] = "Idle"
           THEN trace[r] = << >>
           ELSE trace[r] # << >> /\ trace[r][Len(trace[r])] = StageOf(pc[r])
        /\ pc[r] = "Missing" =>
              /\ secret[r] = None
              /\ token_str[r] = << >>
              /\ instant[r] = None
              /\ outcome[r] = Failure("Missing")
        /\ pc[r] \in {"Invalid", "Success"} =>
              /\ Len(keys[r]) = 1
              /\ keys[r] = Carried(r)
              /\ secret[r].some
              /\ instant[r].some

\* An evaluation ended at Missing on a request with two header values while
\* the secret was bound.
C10_Witness ==
    \E r \in Slots :
        /\ trace[r] = <<"Start", "HeaderLookup", "Missing">>
        /\ Len(Carried(r)) = 2
        /\ env.some

(***************************************************************************)
(* C11.  Two evaluations of the same guard on the same header values at    *)
(* the same evaluation instant verify against the same secret and return   *)
(* the same outcome, whatever else the process does in between.            *)
(***************************************************************************)
C11_SameSecretSameOutcome ==
    \A r, q \in Slots :
        ( /\ request[r] # NoRequest
          /\ request[r] = request[q]
          /\ instant[r].some
          /\ instant[r] = instant[q] )
        => secret[r] = secret[q] /\ outcome[r] = outcome[q]

(***************************************************************************)
(* C12.  The candidate handed to signature verification is the header      *)
(* value with one leading "Bearer " removed if it has one, and then with   *)
(* the surrounding whitespace trimmed; nothing else is removed.            *)
(***************************************************************************)
StripOnePrefix(v) ==
    IF StartsWith(v, Bearer) THEN SubSeq(v, Len(Bearer) + 1, Len(v)) ELSE v

C12_OnePrefixStripped ==
    \A r \in Slots :
        pc[r] \in {"Decode", "Verify", "Panicked", "Invalid", "Success"}
            => token_str[r] = Trim(StripOnePrefix(keys[r][1]))

(***************************************************************************)
(* C13.  The user-session guard copies token_type and never inspects it:   *)
(* a correctly signed, unexpired, well-shaped token is returned Success    *)
(* with its own token_type in the claims, whatever that string is; and two *)
(* evaluations on tokens that differ only in token_type, verified against  *)
(* the same secret at the same instant, return the same kind of outcome.   *)
(***************************************************************************)
C13_TokenTypeNotInspected ==
    /\ \A r \in Slots :
          \A t \in TokensIn(IF Len(Carried(r)) = 1 THEN Carried(r)[1] ELSE << >>) :
              ( /\ request[r].guard = "Claims"
                /\ Returned(r)
                /\ IsToken(Carried(r)[1], t)
                /\ SignedCorrectly(t)
                /\ WellShaped("Claims", t.payload)
                /\ instant[r].some /\ instant[r].val <= t.payload["exp"].n )
              => /\ outcome[r].kind = "Success"
                 /\ outcome[r].claims.token_type = t.payload["token_type"].s
    /\ \A r, q \in Slots :
          ( /\ request[r].guard = "Claims" /\ request[q].guard = "Claims"
            /\ instant[r].some /\ instant[r] = instant[q]
            /\ secret[r] = secret[q]
            /\ Len(Carried(r)) = 1 /\ Len(Carried(q)) = 1
            /\ \E t \in TokensIn(Carried(r)[1]), u \in TokensIn(Carried(q)[1]) :
                  /\ Carried(r) = <<Bearer \o Jwt(t)>>
                  /\ Carried(q) = <<Bearer \o Jwt(u)>>
                  /\ t.alg = u.alg /\ t.key = u.key
                  /\ Carries(t.payload, "token_type")
                  /\ Carries(u.payload, "token_type")
                  /\ Drop(t.payload, "token_type") = Drop(u.payload, "token_type") )
          => outcome[r].kind = outcome[q].kind

\* An access token and a refresh token, alike in everything else, were both
\* returned Success, each with its own token_type.
C13_Witness ==
    \E r, q \in Slots :
        /\ request[r].guard = "Claims" /\ request[q].guard = "Claims"
        /\ outcome[r].kind = "Success" /\ outcome[q].kind = "Success"
        /\ outcome[r].claims.token_type = "access"
        /\ outcome[q].claims.token_type = "refresh"
        /\ \E t \in TokensIn(Carried(r)[1]), u \in TokensIn(Carried(q)[1]) :
              /\ Carried(r) = <<Bearer \o Jwt(t)>>
              /\ Carried(q) = <<Bearer \o Jwt(u)>>
              /\ t.payload["token_type"] = JStr("access")
              /\ u.payload["token_type"] = JStr("refresh")
              /\ Drop(t.payload, "token_type") = Drop(u.payload, "token_type")

(***************************************************************************)
(* C14.  For every Version v of any channel, the Version parsed            *)
(* from v.formatted() equals v, also on the Final channel with a revision  *)
(* other than 0.                                                           *)
(***************************************************************************)
C14_RoundTrip ==
    ver.pc = "parsed" =>
        ver.parsed.kind = "Version" /\ VersionEq(ver.parsed.v, ver.v)


=============================================================================
